---------------------------- MODULE Spec2Model ----------------------------
(***************************************************************************)
(* Model of the shape facade of Crutech-2024 (src/model.py) over a Box2D   *)
(* world: the pixel <-> physics coordinate conversions, the constructors   *)
(* of the Circle / Rectangle / Line shapes, the fixture accessors and the  *)
(* ShapeRegistry, together with the parts of the demo loop (src/demo.py)   *)
(* that draw the registry and step the world.                              *)
(*                                                                         *)
(* Real numbers are exact rationals <<numerator, denominator>>; the code   *)
(* computes the same values in floating point.                             *)
(***************************************************************************)
EXTENDS Integers, Sequences, FiniteSets, TLC

VARIABLES
    objs,           \* the Shape objects constructed so far; objs[i].body is body i
    worldBodies,    \* ids of the bodies linked in the b2World's body list
    shapes,         \* ShapeRegistry.shapes
    destroyCalls,   \* per body: number of world.DestroyBody calls issued on it
    released,       \* history: shapes a delete call found in the registry
    drawn,          \* shapes whose draw the last call invoked
    contacts,       \* touching contacts world.contacts held after the last call
    lastCall,       \* history: the last call made on the facade, with its error
    aborted,        \* the interpreter died in the engine (use of a freed body)
    point,          \* coordinate pipeline: the pixel point fed in
    val,            \* coordinate pipeline: the value after the steps in path
    path,           \* coordinate pipeline: the conversions applied so far
    overlaps,       \* pairs of fixtures whose geometry overlapped in the last step
    mark,           \* history: the last set_velocity call and the steps since
    clock,          \* history: steps of the world that moved a body
    pc,             \* control loop: the phase of main's loop to run next
    running,        \* control loop: main's running flag
    iter,           \* control loop: iterations of the while loop begun
    io,             \* control loop: the KeyQuery
    phases          \* history: the phases run in the current iteration

vars == <<objs, worldBodies, shapes, destroyCalls, released,
          drawn, contacts, lastCall, aborted, point, val, path,
          overlaps, mark, clock, pc, running, iter, io, phases>>

registryVars == <<shapes, destroyCalls, released, drawn, contacts, aborted>>
coordVars == <<point, val, path>>
loopVars == <<pc, running, iter, io, phases>>
extraVars == <<overlaps, mark, clock, loopVars>>

----------------------------------------------------------------------------
(* Bounds of the model *)

MaxShapes == 2      \* shapes constructed before the registry is used
MaxBodies == 1      \* successful constructions in the shape specification
MaxList == 2        \* longest list handed to ShapeRegistry.add
MaxDestroys == 2    \* DestroyBody calls followed per body
MaxPath == 4        \* conversions composed in the coordinate specification
MaxSeconds == 2     \* seconds of motion the world is followed for
MaxIters == 2       \* iterations of the main loop that are followed
MaxEvents == 2      \* events pygame.event.get() returns in one iteration

----------------------------------------------------------------------------
(* settings.py (imported by model.py, not part of the sources at hand) *)

PPM == 20

SCREEN_HEIGHT == 480

----------------------------------------------------------------------------
(* game.py lines 10-11 *)

TARGET_FPS == 60

TIME_STEP == <<1, TARGET_FPS>>

----------------------------------------------------------------------------
(* Exact rational arithmetic standing for Python's float arithmetic *)

Abs(n) == IF n < 0 THEN -n ELSE n

RECURSIVE Gcd(_, _)
Gcd(a, b) == IF b = 0 THEN a ELSE Gcd(b, a % b)

Norm(n, d) ==
    LET g == Gcd(Abs(n), Abs(d))
        s == IF d < 0 THEN -1 ELSE 1
    IN  IF n = 0 THEN <<0, 1>> ELSE <<(s * n) \div g, (s * d) \div g>>

R(n) == <<n, 1>>
\* the least common denominator keeps the products within TLC's integers
Lcd(a, b) == (a[2] \div Gcd(a[2], b[2])) * b[2]
RAdd(a, b) ==
    Norm(a[1] * (Lcd(a, b) \div a[2]) + b[1] * (Lcd(a, b) \div b[2]), Lcd(a, b))
RSub(a, b) ==
    Norm(a[1] * (Lcd(a, b) \div a[2]) - b[1] * (Lcd(a, b) \div b[2]), Lcd(a, b))
RMul(a, b) == Norm(a[1] * b[1], a[2] * b[2])
RDiv(a, b) == Norm(a[1] * b[2], a[2] * b[1])
RNeg(a) == <<-a[1], a[2]>>

\* a point with integer pixel coordinates, as the callers pass it
Px(x, y) == <<R(x), R(y)>>

RLeq(a, b) == a[1] * b[2] <= b[1] * a[2]

----------------------------------------------------------------------------
(* Single precision: the engine keeps every b2Vec2 component and every scalar
   of a body as a float32, rounded to nearest, ties to even *)

MantissaBits == 24

RECURSIVE Pow2(_)
Pow2(k) == IF k = 0 THEN 1 ELSE 2 * Pow2(k - 1)

\* the largest e with d * 2^e <= n, for n >= d
RECURSIVE LogUp(_, _)
LogUp(n, d) == IF d <= n \div 2 THEN 1 + LogUp(n \div 2, d) ELSE 0

\* the least k with n * 2^k >= d, for 0 < n < d
RECURSIVE LogDown(_, _)
LogDown(n, d) == IF n < d THEN 1 + LogDown(2 * n, d) ELSE 0

\* the quotient n / d rounded to the nearest integer, ties to even
RoundHalfEven(n, d) ==
    LET q == n \div d
        r == n % d
    IN  IF 2 * r > d \/ (2 * r = d /\ q % 2 = 1) THEN q + 1 ELSE q

\* the float32 nearest to the positive n / d in lowest terms; a numerator
\* that fits the mantissa over a power of two is a float32 as it stands
F32Pos(n, d) ==
    IF n < Pow2(MantissaBits) /\ d = Pow2(LogUp(d, 1)) THEN <<n, d>>
    ELSE IF n >= d
    THEN LET e == LogUp(n, d) - (MantissaBits - 1)
         IN  IF e >= 0
             THEN R(RoundHalfEven(n, d * Pow2(e)) * Pow2(e))
             ELSE LET g == Gcd(Pow2(-e), d)
                  IN  Norm(RoundHalfEven(n * (Pow2(-e) \div g), d \div g), Pow2(-e))
    ELSE LET s == LogDown(n, d) + (MantissaBits - 1)
             g == Gcd(Pow2(s), d)
         IN  Norm(RoundHalfEven(n * (Pow2(s) \div g), d \div g), Pow2(s))

F32(q) ==
    IF q[1] = 0 THEN R(0)
    ELSE IF q[1] < 0 THEN RNeg(F32Pos(-q[1], q[2]))
    ELSE F32Pos(q[1], q[2])

\* a b2Vec2 made from a pair of Python floats
b2Vec2(v) == <<F32(v[1]), F32(v[2])>>

----------------------------------------------------------------------------
(* Coordinate transform, model.py lines 11-33 *)

pixels_to_box2d(p) == RDiv(p, R(PPM))

\* a plausible slip: floor division (//) in place of true division (/)
pixels_to_box2d_v_floordiv(v) ==
    <<R((v[1][1] \div v[1][2]) \div PPM), R((v[2][1] \div v[2][2]) \div PPM)>>

pixels_to_box2d_v(v) == <<RDiv(v[1], R(PPM)), RDiv(v[2], R(PPM))>>

flip_y_position(v) == <<v[1], RSub(R(SCREEN_HEIGHT), v[2])>>

flip_y_velocity(v) == <<v[1], RNeg(v[2])>>

box2d_to_pixels_v(v) == <<RMul(v[1], R(PPM)), RMul(v[2], R(PPM))>>

box2d_to_pixels(p) == RMul(p, R(PPM))

----------------------------------------------------------------------------
(* CollisionInfo and CollisionType, model.py lines 161-176 *)

\* the null reference a Static or Kinematic subclass passes
NoInfo == [isNone |-> TRUE]

CollisionInfo(density, friction, restitution) ==
    [density |-> density, friction |-> friction, restitution |-> restitution]

\* the constructor's default arguments
DefaultCollisionInfo == CollisionInfo(R(1), R(0), R(1))

CollisionTypes == {"Static", "Kinematic", "Dynamic"}

\* what a caller of the private constructors can pass: a member of the enum, or
\* anything else
CollisionTypeArgs == CollisionTypes \cup {"Other"}

----------------------------------------------------------------------------
(* The Box2D calls the constructors make.  A body made with shapes=... gets *)
(* one fixture per shape with the engine's default material; a body made    *)
(* with fixtures=b2FixtureDef(...) gets that one fixture.                   *)

NoUserData == 0

\* b2Filter() as the engine initialises it: category 0x0001, mask 0xFFFF
DefaultCategoryBits == 1
DefaultMaskBits == 65535

b2FixtureDef(density, friction, restitution) ==
    [density |-> density, friction |-> friction, restitution |-> restitution,
     userData |-> NoUserData,
     categoryBits |-> DefaultCategoryBits, maskBits |-> DefaultMaskBits]

\* the fixture CreateFixturesFromShapes attaches for shapes=self.shape
ShapeFixture == b2FixtureDef(R(0), <<1, 5>>, R(0))

\* a body created without position=... sits at the engine's origin
Origin == <<R(0), R(0)>>

\* a new body is at rest
CreateBody(type, position, fixtures) ==
    [type |-> type, position |-> b2Vec2(position), fixtures |-> fixtures,
     linearVelocity |-> Origin, angularVelocity |-> R(0)]

CreateStaticBody(position) == CreateBody("Static", position, <<ShapeFixture>>)

CreateKinematicBody(position) == CreateBody("Kinematic", position, <<ShapeFixture>>)

CreateDynamicBody(position, fixture) == CreateBody("Dynamic", position, <<fixture>>)

----------------------------------------------------------------------------
(* Outcome of a constructor body up to, not including, its last statement:  *)
(* error is the exception raised ("none" when it ran through), created says *)
(* whether a Create*Body call was made on the world, obj is the Shape.      *)

NoObj == "NoObj"

Built(geom, shape, body) ==
    [error |-> "none", created |-> TRUE,
     obj |-> [geom |-> geom, shape |-> shape, body |-> body]]

Raised(error, created) == [error |-> error, created |-> created, obj |-> NoObj]

\* reading collision_info.density when collision_info is None
InfoError(collision_info) ==
    IF collision_info = NoInfo THEN "AttributeError" ELSE "none"

\* a plausible slip: the dynamic body is created first and its fixture added
\* afterwards, so a null CollisionInfo fails with the body already in the world
Circle_init_bodyfirst(position, radius, collision_type, collision_info) ==
    LET pos == pixels_to_box2d_v(flip_y_position(position))
        shape == [radius |-> pixels_to_box2d(radius)]
    IN  CASE collision_type = "Static" ->
               Built("Circle", shape, CreateStaticBody(pos))
          [] collision_type = "Kinematic" ->
               Built("Circle", shape, CreateKinematicBody(pos))
          [] collision_type = "Dynamic" ->
               IF InfoError(collision_info) # "none"
               THEN Raised(InfoError(collision_info), TRUE)
               ELSE Built("Circle", shape, CreateDynamicBody(pos,
                        b2FixtureDef(collision_info.density, collision_info.friction,
                                     collision_info.restitution)))
          [] OTHER -> Raised("AssertionError", FALSE)

\* __Circle.__init__, lines 189-218
Circle_init(position, radius, collision_type, collision_info) ==
    LET pos == pixels_to_box2d_v(flip_y_position(position))
        shape == [radius |-> pixels_to_box2d(radius)]
    IN  CASE collision_type = "Static" ->
               Built("Circle", shape, CreateStaticBody(pos))
          [] collision_type = "Kinematic" ->
               Built("Circle", shape, CreateKinematicBody(pos))
          [] collision_type = "Dynamic" ->
               \* the arguments of b2FixtureDef are evaluated before
               \* CreateDynamicBody is called
               IF InfoError(collision_info) # "none"
               THEN Raised(InfoError(collision_info), FALSE)
               ELSE Built("Circle", shape, CreateDynamicBody(pos,
                        b2FixtureDef(collision_info.density, collision_info.friction,
                                     collision_info.restitution)))
          [] OTHER -> Raised("AssertionError", FALSE)

\* __Rectangle.__init__, lines 287-322
Rectangle_init(position, size, collision_type, collision_info) ==
    LET centre == <<RAdd(position[1], RDiv(size[1], R(2))),
                    RAdd(position[2], RDiv(size[2], R(2)))>>
        pos == pixels_to_box2d_v(flip_y_position(centre))
        half == <<RDiv(size[1], R(2)), RDiv(size[2], R(2))>>
        shape == [box |-> pixels_to_box2d_v(half)]
    IN  CASE collision_type = "Static" ->
               Built("Rectangle", shape, CreateStaticBody(pos))
          [] collision_type = "Kinematic" ->
               Built("Rectangle", shape, CreateKinematicBody(pos))
          [] collision_type = "Dynamic" ->
               IF InfoError(collision_info) # "none"
               THEN Raised(InfoError(collision_info), FALSE)
               ELSE Built("Rectangle", shape, CreateDynamicBody(pos,
                        b2FixtureDef(collision_info.density, collision_info.friction,
                                     collision_info.restitution)))
          [] OTHER -> Raised("AssertionError", FALSE)

\* __Line.__init__, lines 387-426; the bodies are created without a position
Line_init(point_a, point_b, collision_type, collision_info) ==
    LET a == pixels_to_box2d_v(flip_y_position(point_a))
        b == pixels_to_box2d_v(flip_y_position(point_b))
        a2 == pixels_to_box2d_v(flip_y_position(<<point_a[1], RAdd(point_a[2], R(1))>>))
        b2 == pixels_to_box2d_v(flip_y_position(<<point_b[1], RAdd(point_b[2], R(1))>>))
        edge == [vertices |-> <<a, b>>, is_secretly_polygon |-> FALSE]
        quad == [vertices |-> <<a, b>>, is_secretly_polygon |-> TRUE,
                 polygon |-> <<a, a2, b, b2>>]
    IN  CASE collision_type = "Static" ->
               Built("Line", edge, CreateStaticBody(Origin))
          [] collision_type = "Kinematic" ->
               Built("Line", edge, CreateKinematicBody(Origin))
          [] collision_type = "Dynamic" ->
               IF collision_info = NoInfo
               THEN Raised("AssertionError", FALSE)
               ELSE Built("Line", quad, CreateDynamicBody(Origin,
                        b2FixtureDef(collision_info.density, collision_info.friction,
                                     collision_info.restitution)))
          [] OTHER -> Raised("AssertionError", FALSE)

----------------------------------------------------------------------------
(* Shape accessors, model.py lines 76-136.  A call that raises leaves the   *)
(* object as it was.                                                        *)

b2_get_body(obj) == obj.body

\* the assertion of b2_get_fixture
FixtureError(obj) ==
    IF Len(b2_get_body(obj).fixtures) = 1 THEN "none" ELSE "AssertionError"

b2_get_fixture(obj) == b2_get_body(obj).fixtures[1]

Returned(obj) == [error |-> "none", obj |-> obj]

Failed(error, obj) == [error |-> error, obj |-> obj]

\* the last statement of every constructor: self.b2_get_fixture().userData = self
set_userData(obj, self) ==
    IF FixtureError(obj) # "none" THEN Failed(FixtureError(obj), obj)
    ELSE Returned([obj EXCEPT !.body.fixtures[1].userData = self])

get_position(obj) == flip_y_position(box2d_to_pixels_v(b2_get_body(obj).position))

set_density(obj, density) ==
    IF FixtureError(obj) # "none" THEN Failed(FixtureError(obj), obj)
    ELSE Returned([obj EXCEPT !.body.fixtures[1].density = density])

\* a plausible slip: a setter copied from set_density that still writes density
set_friction_density(obj, friction) ==
    IF FixtureError(obj) # "none" THEN Failed(FixtureError(obj), obj)
    ELSE Returned([obj EXCEPT !.body.fixtures[1].density = friction])

set_friction(obj, friction) ==
    IF FixtureError(obj) # "none" THEN Failed(FixtureError(obj), obj)
    ELSE Returned([obj EXCEPT !.body.fixtures[1].friction = friction])

set_restitution(obj, restitution) ==
    IF FixtureError(obj) # "none" THEN Failed(FixtureError(obj), obj)
    ELSE Returned([obj EXCEPT !.body.fixtures[1].restitution = restitution])

\* a plausible slip: the position is scaled before it is flipped
set_position_scalefirst(obj, position) ==
    Returned([obj EXCEPT !.body.position =
                             b2Vec2(flip_y_position(pixels_to_box2d_v(position)))])

\* lines 98-100; the position setter of a body is SetTransform
set_position(obj, position) ==
    Returned([obj EXCEPT !.body.position =
                             b2Vec2(pixels_to_box2d_v(flip_y_position(position)))])

\* lines 102-103
get_velocity(obj) ==
    box2d_to_pixels_v(flip_y_velocity(b2_get_body(obj).linearVelocity))

\* a plausible slip: a body that is given a velocity becomes a moving body
set_velocity_kinematic(obj, velocity) ==
    Returned([obj EXCEPT !.body.type = IF @ = "Static" THEN "Kinematic" ELSE @,
                         !.body.linearVelocity =
                             b2Vec2(pixels_to_box2d_v(flip_y_velocity(velocity)))])

\* a plausible slip: the velocity is flipped as a position is
set_velocity_as_position(obj, velocity) ==
    IF b2_get_body(obj).type = "Static" THEN Returned(obj)
    ELSE Returned([obj EXCEPT !.body.linearVelocity =
                                  b2Vec2(pixels_to_box2d_v(flip_y_position(velocity)))])

\* lines 105-109; b2Body::SetLinearVelocity returns at once on a static body
set_velocity(obj, velocity) ==
    IF b2_get_body(obj).type = "Static" THEN Returned(obj)
    ELSE Returned([obj EXCEPT !.body.linearVelocity =
                                  b2Vec2(pixels_to_box2d_v(flip_y_velocity(velocity)))])

\* lines 114-116; b2Body::SetAngularVelocity returns at once on a static body
set_angular_velocity(obj, angular_velocity) ==
    IF b2_get_body(obj).type = "Static" THEN Returned(obj)
    ELSE Returned([obj EXCEPT !.body.angularVelocity = F32(angular_velocity)])

\* draw (lines 222-239, 326-340, 430-456) reads the body and writes the screen
draw(obj) == Returned(obj)

\* demo.py lines 59-68: the values of the CollisionGroup flags
CollisionGroup ==
    [NoCollision |-> 0, Default |-> 1, SecondGroup |-> 2, ThirdGroup |-> 4]

\* ~CollisionGroup(0): every flag of the enumeration
ALL ==
    CollisionGroup.Default + CollisionGroup.SecondGroup + CollisionGroup.ThirdGroup

\* a plausible slip: the two keyword arguments of b2Filter exchanged
set_collision_group_swapped(obj, my_group, can_collide_with_groups) ==
    IF FixtureError(obj) # "none" THEN Failed(FixtureError(obj), obj)
    ELSE Returned([obj EXCEPT !.body.fixtures[1].categoryBits = can_collide_with_groups,
                              !.body.fixtures[1].maskBits = my_group])

\* lines 89-93; the groups are passed as their .value
set_collision_group(obj, my_group, can_collide_with_groups) ==
    IF FixtureError(obj) # "none" THEN Failed(FixtureError(obj), obj)
    ELSE Returned([obj EXCEPT !.body.fixtures[1].categoryBits = my_group,
                              !.body.fixtures[1].maskBits = can_collide_with_groups])

----------------------------------------------------------------------------
(* ShapeRegistry, model.py lines 139-158, and the engine calls it makes *)

\* the shapes that exist, by identity
ShapeIds == 1 .. Len(objs)

\* an argument of add: a list of shapes, or one shape
AddInputs ==
    [isList : {FALSE}, value : ShapeIds]
      \cup [isList : {TRUE},
            value : UNION {[1 .. n -> ShapeIds] : n \in 0 .. MaxList}]

\* lines 145-146
AsList(input) == IF input.isList THEN input.value ELSE <<input.value>>

\* the loop of lines 148-149
RECURSIVE add_each(_, _)
add_each(tracked, list) ==
    IF list = <<>> THEN tracked
    ELSE add_each(tracked \cup {Head(list)}, Tail(list))

\* a plausible slip: the isinstance test dropped, so one shape is not iterated
registry_add_listonly(tracked, input) ==
    IF input.isList THEN add_each(tracked, input.value) ELSE tracked

registry_add(tracked, input) == add_each(tracked, AsList(input))

\* a plausible slip: set.discard in place of the membership test, the body
\* destroyed whether or not the shape was tracked
registry_delete_unguarded(tracked, shape) ==
    [shapes |-> tracked \ {shape}, destroy |-> TRUE]

\* a plausible slip: the body destroyed, the shape left in the set
registry_delete_keep(tracked, shape) ==
    [shapes |-> tracked, destroy |-> shape \in tracked]

\* lines 152-154: the set after the call, and whether DestroyBody is called
registry_delete(tracked, shape) ==
    IF shape \in tracked
    THEN [shapes |-> tracked \ {shape}, destroy |-> TRUE]
    ELSE [shapes |-> tracked, destroy |-> FALSE]

\* world.DestroyBody(body): a linked body is unlinked and freed.  On a body
\* already freed the engine reads freed memory: the process may die, the call
\* may return having changed nothing, or it may unlink another body.
DestroyBody(bodies, body) ==
    IF body \in bodies
    THEN {[bodies |-> bodies \ {body}, aborted |-> FALSE]}
    ELSE {[bodies |-> bodies, aborted |-> TRUE],
          [bodies |-> bodies, aborted |-> FALSE]}
           \cup {[bodies |-> bodies \ {other}, aborted |-> FALSE] : other \in bodies}

\* bitwise and of two naturals
RECURSIVE BitAnd(_, _)
BitAnd(a, b) ==
    IF a = 0 \/ b = 0 THEN 0
    ELSE (a % 2) * (b % 2) + 2 * BitAnd(a \div 2, b \div 2)

\* the engine's test before it makes a contact between two fixtures: each
\* category is in the other's mask (b2ContactFilter), and at least one of the
\* two bodies is dynamic (b2Body::ShouldCollide)
ShouldCollide(objA, objB) ==
    LET fA == b2_get_fixture(objA)
        fB == b2_get_fixture(objB)
    IN  /\ BitAnd(fA.maskBits, fB.categoryBits) # 0
        /\ BitAnd(fA.categoryBits, fB.maskBits) # 0
        /\ "Dynamic" \in {b2_get_body(objA).type, b2_get_body(objB).type}

\* pairs of linked bodies
BodyPairs(bodies) == {pair \in SUBSET bodies : Cardinality(pair) = 2}

\* the touching contacts after a step in which the pairs in overlapping
\* overlapped, each fixture named by its userData
Touching(os, bodies, overlapping) ==
    {pair \in overlapping \cap BodyPairs(bodies) :
        \E a \in pair, b \in pair : a # b /\ ShouldCollide(os[a], os[b])}

\* the touching contacts the engine can hold
ContactSets(bodies) ==
    {Touching(objs, bodies, overlapping) : overlapping \in SUBSET BodyPairs(bodies)}

Call(op, shape, error, arg, twice) ==
    [op |-> op, shape |-> shape, error |-> error, arg |-> arg, twice |-> twice]

\* shape_registry.add(input)
Add(input) ==
    /\ ~aborted
    /\ shapes' = registry_add(shapes, input)
    /\ drawn' = {}
    /\ lastCall' = Call("add", IF input.isList THEN 0 ELSE input.value, "none",
                        AsList(input), FALSE)
    /\ UNCHANGED <<objs, worldBodies, destroyCalls, released,
                   contacts, aborted, coordVars, extraVars>>

\* shape_registry.delete(shape)
Delete(shape) ==
    /\ ~aborted
    /\ LET r == registry_delete(shapes, shape)
       IN  /\ shapes' = r.shapes
           /\ IF r.destroy
              THEN /\ destroyCalls[shape] < MaxDestroys
                   /\ \E o \in DestroyBody(worldBodies, shape) :
                        /\ worldBodies' = o.bodies
                        /\ aborted' = o.aborted
                        /\ contacts' = {c \in contacts : c \subseteq o.bodies}
                   /\ destroyCalls' = [destroyCalls EXCEPT ![shape] = @ + 1]
                   /\ released' = released \cup {shape}
              ELSE UNCHANGED <<worldBodies, aborted, contacts, destroyCalls, released>>
    /\ drawn' = {}
    /\ lastCall' = Call("delete", shape, "none", <<>>,
                        lastCall.op = "delete" /\ lastCall.shape = shape)
    /\ UNCHANGED <<objs, coordVars, extraVars>>

\* shape_registry.draw_shapes(screen): every tracked shape's draw is invoked;
\* drawing a shape whose body was freed reads freed memory
DrawShapes ==
    /\ ~aborted
    /\ drawn' = shapes
    /\ aborted' \in (IF shapes \subseteq worldBodies THEN {FALSE} ELSE BOOLEAN)
    /\ lastCall' = Call("draw_shapes", 0, "none", <<>>, FALSE)
    /\ UNCHANGED <<objs, worldBodies, shapes, destroyCalls,
                   released, contacts, coordVars, extraVars>>

\* demo.py lines 135-143: world.Step, then world.contacts is read
Step ==
    /\ ~aborted
    /\ contacts' \in ContactSets(worldBodies)
    /\ drawn' = {}
    /\ lastCall' = Call("Step", 0, "none", <<>>, FALSE)
    /\ UNCHANGED <<objs, worldBodies, shapes, destroyCalls,
                   released, aborted, coordVars, extraVars>>

\* the shapes demo.py constructs (lines 16-23), repeated in that order
DemoShape(k) ==
    CASE k % 3 = 1 -> Rectangle_init(Px(100, 350), Px(120, 50), "Kinematic", NoInfo)
      [] k % 3 = 2 -> Circle_init(Px(150, 250), R(30), "Dynamic",
                                  CollisionInfo(R(1), R(0), <<7, 10>>))
      [] OTHER -> Line_init(Px(30, 20), Px(130, 100), "Kinematic", NoInfo)

NoCoord == <<R(0), R(0)>>

NoMark == [shape |-> 0]

\* a KeyQuery as its constructor leaves it (lines 37-41)
KeyQuery ==
    [keys_down |-> {}, keys_pressed |-> {}, keys_released |-> {}]

\* the state of what a specification does not use
InitExtra ==
    /\ overlaps = {}
    /\ mark = NoMark
    /\ clock = 0
    /\ pc = "main"
    /\ running = TRUE
    /\ iter = 0
    /\ io = KeyQuery
    /\ phases = <<>>

\* demo.py lines 14-86: the world, its shapes, and an empty registry
Init ==
    /\ objs = [k \in 1 .. MaxShapes |-> set_userData(DemoShape(k).obj, k).obj]
    /\ worldBodies = 1 .. MaxShapes
    /\ shapes = {}
    /\ destroyCalls = [k \in 1 .. MaxShapes |-> 0]
    /\ released = {}
    /\ drawn = {}
    /\ contacts = {}
    /\ lastCall = Call("ShapeRegistry", 0, "none", <<>>, FALSE)
    /\ aborted = FALSE
    /\ point = NoCoord /\ val = NoCoord /\ path = <<>>
    /\ InitExtra

Next ==
    \/ \E input \in AddInputs : Add(input)
    \/ \E shape \in ShapeIds : Delete(shape)
    \/ DrawShapes
    \/ Step

Spec == Init /\ [][Next]_vars

----------------------------------------------------------------------------
(* Shapes constructed in, and accessed through, one world *)

Positions == {Px(100, 350), Px(200, 250)}

Sizes == {Px(200, 50)}

Radii == {R(25)}

Infos == {NoInfo, DefaultCollisionInfo}

MaterialValues == {R(2)}

StaticOrKinematic(obj) == b2_get_body(obj).type \in {"Static", "Kinematic"}

\* a constructor call: its body, then self.b2_get_fixture().userData = self
Construct(op, out, position) ==
    LET self == Len(objs) + 1
        fin == IF out.error = "none" THEN set_userData(out.obj, self)
               ELSE Failed(out.error, out.obj)
    IN  /\ IF fin.error = "none" THEN Len(objs) < MaxBodies ELSE TRUE
        /\ objs' = IF fin.error = "none" THEN Append(objs, fin.obj) ELSE objs
        /\ worldBodies' = IF out.created THEN worldBodies \cup {self} ELSE worldBodies
        /\ destroyCalls' = IF fin.error = "none" THEN Append(destroyCalls, 0)
                           ELSE destroyCalls
        /\ lastCall' = IF fin.error = "none"
                       THEN Call(op, self, "none", position, FALSE)
                       ELSE Call(op, 0, fin.error, <<>>, FALSE)
        /\ UNCHANGED <<shapes, released, drawn, contacts, aborted,
                       coordVars, extraVars>>

NewCircle(position, radius, collision_type, collision_info) ==
    Construct("Circle", Circle_init(position, radius, collision_type, collision_info),
              position)

NewRectangle(position, size, collision_type, collision_info) ==
    Construct("Rectangle",
              Rectangle_init(position, size, collision_type, collision_info), position)

NewLine(point_a, point_b, collision_type, collision_info) ==
    Construct("Line", Line_init(point_a, point_b, collision_type, collision_info),
              point_a)

\* the velocity call a later position is measured from
Mark(self, from, velocity) ==
    [shape |-> self, from |-> from, velocity |-> velocity, steps |-> 0]

\* one more step since the marked call, counted up to the horizon
Tick(m) ==
    IF m.shape = 0 \/ m.steps > MaxSeconds * TARGET_FPS THEN m
    ELSE [m EXCEPT !.steps = @ + 1]

\* a call of a method of shape number self; a shape whose body was destroyed
\* reaches freed memory
Access(op, self, out, arg, newMark) ==
    /\ ~aborted
    /\ objs' = [objs EXCEPT ![self] = out.obj]
    /\ aborted' \in (IF self \in worldBodies THEN {FALSE} ELSE BOOLEAN)
    /\ lastCall' = Call(op, self, out.error, arg, FALSE)
    /\ mark' = newMark
    /\ UNCHANGED <<worldBodies, shapes, destroyCalls, released, drawn, contacts,
                   coordVars, overlaps, clock, loopVars>>

\* a call of a material setter on shape number self
Setter(op, self, out, value) == Access(op, self, out, <<value>>, mark)

SetDensity(self, value) ==
    Setter("set_density", self, set_density(objs[self], value), value)

SetFriction(self, value) ==
    Setter("set_friction", self, set_friction(objs[self], value), value)

SetRestitution(self, value) ==
    Setter("set_restitution", self, set_restitution(objs[self], value), value)

\* a world with no body
InitShape ==
    /\ objs = <<>>
    /\ worldBodies = {}
    /\ shapes = {}
    /\ destroyCalls = <<>>
    /\ released = {}
    /\ drawn = {}
    /\ contacts = {}
    /\ lastCall = Call("b2World", 0, "none", <<>>, FALSE)
    /\ aborted = FALSE
    /\ point = NoCoord /\ val = NoCoord /\ path = <<>>
    /\ InitExtra

NextShape ==
    \/ \E position \in Positions, radius \in Radii,
          collision_type \in CollisionTypeArgs, collision_info \in Infos :
            NewCircle(position, radius, collision_type, collision_info)
    \/ \E position \in Positions, size \in Sizes,
          collision_type \in CollisionTypeArgs, collision_info \in Infos :
            NewRectangle(position, size, collision_type, collision_info)
    \/ \E point_a \in Positions, point_b \in Sizes,
          collision_type \in CollisionTypeArgs, collision_info \in Infos :
            NewLine(point_a, point_b, collision_type, collision_info)
    \/ \E self \in ShapeIds, value \in MaterialValues : SetDensity(self, value)
    \/ \E self \in ShapeIds, value \in MaterialValues : SetFriction(self, value)
    \/ \E self \in ShapeIds, value \in MaterialValues : SetRestitution(self, value)

SpecShape == InitShape /\ [][NextShape]_vars

----------------------------------------------------------------------------
(* The coordinate conversions composed freely on a pixel point *)

Points == {Px(100, 350), Px(30, 20), Px(0, 0)}

Convert(name, result) ==
    /\ Len(path) < MaxPath
    /\ val' = result
    /\ path' = Append(path, name)
    /\ UNCHANGED <<objs, worldBodies, registryVars, lastCall, point, extraVars>>

FlipY == Convert("flip_y_position", flip_y_position(val))

ToPhysical == Convert("pixels_to_box2d_v", pixels_to_box2d_v(val))

ToPixels == Convert("box2d_to_pixels_v", box2d_to_pixels_v(val))

InitCoord ==
    /\ objs = <<>>
    /\ worldBodies = {}
    /\ shapes = {}
    /\ destroyCalls = <<>>
    /\ released = {}
    /\ drawn = {}
    /\ contacts = {}
    /\ lastCall = Call("none", 0, "none", <<>>, FALSE)
    /\ aborted = FALSE
    /\ point \in Points
    /\ val = point
    /\ path = <<>>
    /\ InitExtra

NextCoord == FlipY \/ ToPhysical \/ ToPixels

SpecCoord == InitCoord /\ [][NextCoord]_vars

----------------------------------------------------------------------------
(* Shapes of a world that is stepped: game.py lines 10-15 and 141 *)

\* game.py line 15: b2World(gravity=(0, 0))
Gravity == Origin

\* what the solver does to the velocity of a dynamic body that touches
\* another: the outcome depends on geometry that is not modelled
ContactResponses == {"keep", "reverse"}

\* one body over one step: static bodies stay, and so does a body at rest
\* that nothing accelerates; the others take v += h * gravity (dynamic only),
\* then position += h * v, in single precision
Integrate(body, touching, response) ==
    IF body.type = "Static" THEN body
    ELSE IF body.linearVelocity = Origin /\ Gravity = Origin THEN body
    ELSE LET h == F32(TIME_STEP)
             v0 == body.linearVelocity
             v1 == IF body.type = "Dynamic"
                   THEN b2Vec2(<<RAdd(v0[1], RMul(h, Gravity[1])),
                                 RAdd(v0[2], RMul(h, Gravity[2]))>>)
                   ELSE v0
             v == IF body.type = "Dynamic" /\ touching /\ response = "reverse"
                  THEN <<RNeg(v1[1]), RNeg(v1[2])>> ELSE v1
             translation == b2Vec2(<<RMul(h, v[1]), RMul(h, v[2])>>)
         IN  [body EXCEPT !.linearVelocity = v,
                          !.position = b2Vec2(<<RAdd(@[1], translation[1]),
                                                RAdd(@[2], translation[2])>>)]

\* world.Step(TIME_STEP, 10, 10) on the linked bodies
b2World_Step(os, bodies, touching, response) ==
    [k \in DOMAIN os |->
        IF k \in bodies
        THEN [os[k] EXCEPT !.body = Integrate(@, k \in UNION touching, response)]
        ELSE os[k]]

SetCollisionGroup(self, my_group, can_collide_with_groups) ==
    Access("set_collision_group", self,
           set_collision_group(objs[self], my_group, can_collide_with_groups),
           <<my_group, can_collide_with_groups>>, mark)

\* game.py lines 141-149: world.Step, then world.contacts is read
StepAndContacts ==
    /\ ~aborted
    /\ clock < MaxSeconds * TARGET_FPS
    /\ \E overlapping \in SUBSET BodyPairs(worldBodies) :
         LET touching == Touching(objs, worldBodies, overlapping)
         IN  /\ \E response \in (IF touching = {} THEN {"keep"}
                                  ELSE ContactResponses) :
                  objs' = b2World_Step(objs, worldBodies, touching, response)
             /\ overlaps' = overlapping
             /\ contacts' = touching
    /\ clock' = IF objs' = objs THEN clock ELSE clock + 1
    /\ mark' = Tick(mark)
    /\ drawn' = {}
    /\ lastCall' = Call("Step", 0, "none", <<>>, FALSE)
    /\ UNCHANGED <<worldBodies, shapes, destroyCalls, released, aborted, coordVars>>

WorldStep == StepAndContacts /\ UNCHANGED loopVars

----------------------------------------------------------------------------
(* Collision groups: demo.py lines 59-74 *)

\* the arguments demo.py passes to set_collision_group (lines 70-74)
GroupArgs ==
    {<<CollisionGroup.Default, ALL>>,
     <<CollisionGroup.SecondGroup, CollisionGroup.Default>>,
     <<CollisionGroup.ThirdGroup, CollisionGroup.Default>>}

\* a circle as demo.py line 20 makes it, of either moving kind
GroupShape(collision_type) ==
    Circle_init(Px(150, 250), R(30), collision_type,
                CollisionInfo(R(1), R(0), <<7, 10>>))

\* a world of circles, each kinematic or dynamic
InitFilter ==
    /\ \E types \in [1 .. MaxShapes -> {"Kinematic", "Dynamic"}] :
         objs = [k \in 1 .. MaxShapes |->
                    set_userData(GroupShape(types[k]).obj, k).obj]
    /\ worldBodies = 1 .. MaxShapes
    /\ shapes = {}
    /\ destroyCalls = [k \in 1 .. MaxShapes |-> 0]
    /\ released = {}
    /\ drawn = {}
    /\ contacts = {}
    /\ lastCall = Call("b2World", 0, "none", <<>>, FALSE)
    /\ aborted = FALSE
    /\ point = NoCoord /\ val = NoCoord /\ path = <<>>
    /\ InitExtra

NextFilter ==
    \/ \E self \in ShapeIds, args \in GroupArgs :
         SetCollisionGroup(self, args[1], args[2])
    \/ WorldStep

SpecFilter == InitFilter /\ [][NextFilter]_vars

----------------------------------------------------------------------------
(* Properties of the registry, checked under Spec *)

Range(seq) == {seq[i] : i \in DOMAIN seq}

\* C1: over any sequence of add and delete calls, re-adding included,
\* DestroyBody is issued at most once on any shape's body, and exactly once on
\* the body of a shape that has been deleted.
C1_DestroyedAtMostOnce ==
    \A s \in ShapeIds :
        /\ destroyCalls[s] <= 1
        /\ s \in released => destroyCalls[s] = 1

\* C2: every shape in the registry's tracked set has a body that has not been
\* destroyed in the world.
C2_TrackedBodiesLive == shapes \subseteq worldBodies

\* C3: a delete(s) that directly follows a delete(s) leaves the tracked set as
\* the first one left it and issues no DestroyBody call.
C3_DeleteTwice ==
    [][(lastCall'.op = "delete" /\ lastCall'.twice)
         => /\ shapes' = shapes
            /\ destroyCalls' = destroyCalls
            /\ worldBodies' = worldBodies]_vars

\* two deletes of one tracked shape in a row have happened
C3_Witness ==
    /\ lastCall.op = "delete"
    /\ lastCall.twice
    /\ lastCall.shape \in released
    /\ destroyCalls[lastCall.shape] = 1

\* C4: delete(shape) on a shape that is not tracked raises nothing, leaves the
\* tracked set unchanged and destroys no body; on a tracked shape it removes
\* that shape and only that shape, and issues DestroyBody on that shape's body,
\* which is not in the world afterwards.
C4_DeleteEffect ==
    [][lastCall'.op = "delete"
         => LET s == lastCall'.shape
            IN  IF s \in shapes
                THEN /\ shapes' = shapes \ {s}
                     /\ destroyCalls' = [destroyCalls EXCEPT ![s] = @ + 1]
                     /\ s \notin worldBodies'
                ELSE /\ shapes' = shapes
                     /\ destroyCalls' = destroyCalls
                     /\ worldBodies' = worldBodies
                     /\ lastCall'.error = "none"
                     /\ ~aborted']_vars

\* a tracked shape has just been deleted while another shape stayed tracked
C4_Witness ==
    /\ lastCall.op = "delete"
    /\ ~lastCall.twice
    /\ lastCall.shape \in released
    /\ lastCall.shape \notin shapes
    /\ lastCall.shape \notin worldBodies
    /\ shapes # {}

\* C5: add takes one shape or a list of shapes; afterwards the tracked set is
\* the old set together with the shapes handed in, however often a shape occurs
\* in the list and whether or not it was tracked already, and no body is
\* created or destroyed.
C5_AddSetSemantics ==
    [][lastCall'.op = "add"
         => /\ shapes' = shapes \cup Range(lastCall'.arg)
            /\ worldBodies' = worldBodies
            /\ destroyCalls' = destroyCalls
            /\ objs' = objs]_vars

\* a list naming the same shape twice has been added, and it is tracked once
C5_Witness ==
    /\ lastCall.op = "add"
    /\ lastCall.shape = 0
    /\ Len(lastCall.arg) = 2
    /\ lastCall.arg[1] = lastCall.arg[2]
    /\ shapes = {lastCall.arg[1]}

\* C6: once delete(s) has been called for a tracked shape s, no later
\* draw_shapes call invokes s.draw and no contact of a later step has s's
\* fixture as a participant.
C6_DeletedShapeGone ==
    \A s \in released :
        /\ s \notin drawn
        /\ \A c \in contacts : s \notin c

----------------------------------------------------------------------------
(* Properties of the shapes, checked under SpecShape *)

MaterialSetters == {"set_density", "set_friction", "set_restitution"}

\* C7: a Rectangle constructed with top-left pixel position P reports
\* get_position() = P right after construction.
C7_RectangleReportsTopLeft ==
    (lastCall.op = "Rectangle" /\ lastCall.error = "none")
        => get_position(objs[lastCall.shape]) = lastCall.arg

C10_DynamicNeedsCollisionInfo ==
    [][\A position \in Positions, size \in Sizes, radius \in Radii :
          (\/ NewCircle(position, radius, "Dynamic", NoInfo)
           \/ NewRectangle(position, size, "Dynamic", NoInfo)
           \/ NewLine(position, size, "Dynamic", NoInfo))
            => /\ lastCall'.error # "none"
               /\ worldBodies' = worldBodies
               /\ objs' = objs]_vars

\* a Dynamic Rectangle without CollisionInfo has just been refused, and every
\* body of the world belongs to a shape that exists
C10_Witness ==
    /\ lastCall.op = "Rectangle"
    /\ lastCall.error = "AttributeError"
    /\ worldBodies = ShapeIds

----------------------------------------------------------------------------
(* Properties of the coordinate transform, checked under SpecCoord *)

\* C8 as stated: toPixels(flipY(toPhysical(flipY(P, H)), H)) = P.
C8_RoundTripAsStated ==
    path = <<"flip_y_position", "pixels_to_box2d_v", "flip_y_position",
             "box2d_to_pixels_v">>
        => val = point

\* C8 in the order get_position and set_position compose the conversions:
\* flipY(toPixels(toPhysical(flipY(P, H))), H) = P.
C8_RoundTrip ==
    path = <<"flip_y_position", "pixels_to_box2d_v", "box2d_to_pixels_v",
             "flip_y_position">>
        => val = point

\* the four conversions were applied in that order to a point off both axes
C8_Witness ==
    /\ path = <<"flip_y_position", "pixels_to_box2d_v", "box2d_to_pixels_v",
                "flip_y_position">>
    /\ point = Px(100, 350)
    /\ val = point

----------------------------------------------------------------------------
(* The main loop: demo.py lines 79-155 *)

\* the keys demo.py asks about that the modelled shapes react to
Keys == {"K_ESCAPE", "K_q", "K_d"}

NoKey == "none"

Event(type, key) == [type |-> type, key |-> key]

\* what pygame.event.get() can hold
Events ==
    {Event("QUIT", NoKey)} \cup {Event(type, key) : type \in {"KEYDOWN", "KEYUP"},
                                                     key \in Keys}

EventLists == UNION {[1 .. n -> Events] : n \in 0 .. MaxEvents}

\* model.py lines 52-54
mark_pressed(q, key) ==
    [error |-> "none",
     io |-> [q EXCEPT !.keys_down = @ \cup {key}, !.keys_pressed = @ \cup {key}]]

\* model.py lines 56-58: set.remove raises KeyError for a key that is not down
mark_released(q, key) ==
    IF key \notin q.keys_down THEN [error |-> "KeyError", io |-> q]
    ELSE [error |-> "none",
          io |-> [q EXCEPT !.keys_down = @ \ {key}, !.keys_released = @ \cup {key}]]

\* model.py lines 60-62
clear_pressed(q) == [q EXCEPT !.keys_pressed = {}, !.keys_released = {}]

\* demo.py lines 93-100: the body of the event loop for one event
handle_event(st, event) ==
    IF st.stop THEN st
    ELSE IF event.type = "QUIT" \/ (event.type = "KEYDOWN" /\ event.key = "K_ESCAPE")
    THEN [st EXCEPT !.running = FALSE, !.stop = TRUE]
    ELSE LET out == IF event.type = "KEYDOWN" THEN mark_pressed(st.io, event.key)
                    ELSE mark_released(st.io, event.key)
         IN  [st EXCEPT !.io = out.io, !.error = out.error,
                        !.stop = out.error # "none"]

\* demo.py lines 92-100: for event in pygame.event.get()
RECURSIVE poll_events(_, _)
poll_events(st, events) ==
    IF events = <<>> THEN st
    ELSE poll_events(handle_event(st, Head(events)), Tail(events))

\* a plausible slip: a loop that does not test its flag
while_test_forever(flag) == TRUE

\* demo.py line 89: while running
while_test(flag) == flag

\* the phases of one iteration in the order of demo.py lines 90-152 and of
\* game.py lines 101-158: events, shape changes, draw_shapes, world.Step, flip
LoopOrder == <<"poll", "mutate", "draw", "step", "flip">>

\* a plausible slip: the world is stepped before it is drawn
next_phase_stepfirst(phase) ==
    CASE phase = "poll" -> "mutate"
      [] phase = "mutate" -> "step"
      [] phase = "step" -> "draw"
      [] phase = "draw" -> "flip"
      [] OTHER -> "while"

\* the statement that follows a phase
next_phase(phase) ==
    IF \E k \in 1 .. Len(LoopOrder) - 1 : LoopOrder[k] = phase
    THEN LoopOrder[(CHOOSE k \in 1 .. Len(LoopOrder) - 1 : LoopOrder[k] = phase) + 1]
    ELSE "while"

\* the end of a phase
Advance(phase) ==
    /\ pc' = next_phase(phase)
    /\ phases' = Append(phases, phase)

\* demo.py line 89 and, once the loop is left, line 154
While ==
    /\ ~aborted
    /\ pc = "while"
    /\ IF while_test(running)
       THEN /\ iter < MaxIters
            /\ iter' = iter + 1
            /\ pc' = "poll"
            /\ phases' = <<>>
       ELSE /\ pc' = "done"
            /\ UNCHANGED <<iter, phases>>
    /\ UNCHANGED <<objs, worldBodies, registryVars, lastCall, coordVars,
                   overlaps, mark, clock, running, io>>

\* demo.py lines 90-100
Poll(events) ==
    /\ ~aborted
    /\ pc = "poll"
    /\ LET st == poll_events([io |-> clear_pressed(io), running |-> running,
                              error |-> "none", stop |-> FALSE], events)
       IN  /\ io' = st.io
           /\ running' = st.running
           /\ lastCall' = Call("poll", 0, st.error, events, FALSE)
           /\ IF st.error = "none" THEN Advance("poll")
              ELSE pc' = "raised" /\ phases' = phases
    /\ UNCHANGED <<objs, worldBodies, registryVars, coordVars,
                   overlaps, mark, clock, iter>>

\* random.random() * 50 - 25 and random.random() * 0.2 (demo.py lines 123-124)
AngularVelocities == {R(5)}

Frictions == {R(0)}

\* demo.py line 16: the shape the q key deletes is the first one constructed
kinematic_rect == 1

\* demo.py lines 102-109: the velocity the held keys ask for
KeyVelocity(q) == Px((IF "K_d" \in q.keys_down THEN 1 ELSE 0) * 400, 0)

\* demo.py lines 102-124: the shape changes of one iteration
Mutate(angular_velocity, friction) ==
    /\ ~aborted
    /\ pc = "mutate"
    /\ objs' = [k \in DOMAIN objs |->
                  CASE objs[k].body.type = "Kinematic" ->
                         set_velocity(objs[k], KeyVelocity(io)).obj
                    [] objs[k].body.type = "Dynamic" ->
                         set_friction(set_angular_velocity(objs[k], angular_velocity).obj,
                                      friction).obj
                    [] OTHER -> objs[k]]
    /\ LET r == IF "K_q" \in io.keys_pressed
                THEN registry_delete(shapes, kinematic_rect)
                ELSE [shapes |-> shapes, destroy |-> FALSE]
           \* set_velocity on a shape whose body was destroyed
           freed == \E k \in DOMAIN objs :
                        objs[k].body.type = "Kinematic" /\ k \notin worldBodies
       IN  /\ shapes' = r.shapes
           /\ IF r.destroy
              THEN /\ destroyCalls[kinematic_rect] < MaxDestroys
                   /\ \E o \in DestroyBody(worldBodies, kinematic_rect) :
                        /\ worldBodies' = o.bodies
                        /\ aborted' \in (IF freed THEN BOOLEAN ELSE {o.aborted})
                        /\ contacts' = {c \in contacts : c \subseteq o.bodies}
                   /\ destroyCalls' = [destroyCalls EXCEPT ![kinematic_rect] = @ + 1]
                   /\ released' = released \cup {kinematic_rect}
              ELSE /\ aborted' \in (IF freed THEN BOOLEAN ELSE {FALSE})
                   /\ UNCHANGED <<worldBodies, contacts, destroyCalls, released>>
    /\ drawn' = {}
    /\ lastCall' = Call("mutate", 0, "none", <<>>, FALSE)
    /\ Advance("mutate")
    /\ UNCHANGED <<coordVars, overlaps, mark, clock, running, iter, io>>

\* demo.py lines 127-128
Draw ==
    /\ ~aborted
    /\ pc = "draw"
    /\ drawn' = shapes
    /\ aborted' \in (IF shapes \subseteq worldBodies THEN {FALSE} ELSE BOOLEAN)
    /\ lastCall' = Call("draw_shapes", 0, "none", <<>>, FALSE)
    /\ Advance("draw")
    /\ UNCHANGED <<objs, worldBodies, shapes, destroyCalls, released, contacts,
                   coordVars, overlaps, mark, clock, running, iter, io>>

\* demo.py lines 135-148
LoopStep ==
    /\ pc = "step"
    /\ StepAndContacts
    /\ Advance("step")
    /\ UNCHANGED <<running, iter, io>>

\* demo.py lines 151-152
Flip ==
    /\ ~aborted
    /\ pc = "flip"
    /\ Advance("flip")
    /\ UNCHANGED <<objs, worldBodies, registryVars, lastCall, coordVars,
                   overlaps, mark, clock, running, iter, io>>

\* demo.py lines 14-88: every shape is tracked when the loop is reached
InitLoop ==
    /\ objs = [k \in 1 .. MaxShapes |-> set_userData(DemoShape(k).obj, k).obj]
    /\ worldBodies = 1 .. MaxShapes
    /\ shapes = registry_add({}, [isList |-> TRUE,
                                  value |-> [k \in 1 .. MaxShapes |-> k]])
    /\ destroyCalls = [k \in 1 .. MaxShapes |-> 0]
    /\ released = {}
    /\ drawn = {}
    /\ contacts = {}
    /\ lastCall = Call("add", 0, "none", <<>>, FALSE)
    /\ aborted = FALSE
    /\ point = NoCoord /\ val = NoCoord /\ path = <<>>
    /\ overlaps = {}
    /\ mark = NoMark
    /\ clock = 0
    /\ pc = "while"
    /\ running = TRUE
    /\ iter = 0
    /\ io = KeyQuery
    /\ phases = <<>>

NextLoop ==
    \/ While
    \/ \E events \in EventLists : Poll(events)
    \/ \E angular_velocity \in AngularVelocities, friction \in Frictions :
         Mutate(angular_velocity, friction)
    \/ Draw
    \/ LoopStep
    \/ Flip

SpecLoop == InitLoop /\ [][NextLoop]_vars

----------------------------------------------------------------------------
(* Collision filtering *)

\* each fixture's category is in the other's mask
MasksAdmit(objA, objB) ==
    /\ BitAnd(b2_get_fixture(objA).categoryBits, b2_get_fixture(objB).maskBits) # 0
    /\ BitAnd(b2_get_fixture(objB).categoryBits, b2_get_fixture(objA).maskBits) # 0

\* default category, collidable with every category
DefaultConfigured(obj) ==
    /\ b2_get_fixture(obj).categoryBits = CollisionGroup.Default
    /\ BitAnd(b2_get_fixture(obj).maskBits, ALL) = ALL

\* set_collision_group has written its two arguments to the fixture
GroupWritten ==
    (lastCall.op = "set_collision_group" /\ lastCall.error = "none") =>
        /\ b2_get_fixture(objs[lastCall.shape]).categoryBits = lastCall.arg[1]
        /\ b2_get_fixture(objs[lastCall.shape]).maskBits = lastCall.arg[2]

\* C11 as stated: after a step, a pair is in contact only if each category is
\* in the other's mask, and two default-configured shapes that overlap are
\* always in contact
C11_FilteringAsStated ==
    lastCall.op = "Step" =>
        \A a \in worldBodies : \A b \in worldBodies \ {a} :
            /\ {a, b} \in contacts => MasksAdmit(objs[a], objs[b])
            /\ (DefaultConfigured(objs[a]) /\ DefaultConfigured(objs[b])
                    /\ {a, b} \in overlaps) => {a, b} \in contacts

\* C11 (amended): set_collision_group writes the category and the mask it is
\* given; after a step a pair is in contact only if each category is in the
\* other's mask; two default-configured shapes that overlap are in contact
\* when at least one of them is Dynamic, and never when neither is
C11_Filtering ==
    /\ GroupWritten
    /\ lastCall.op = "Step" =>
          \A a \in worldBodies : \A b \in worldBodies \ {a} :
              /\ {a, b} \in contacts => MasksAdmit(objs[a], objs[b])
              /\ (DefaultConfigured(objs[a]) /\ DefaultConfigured(objs[b])
                      /\ {a, b} \in overlaps) =>
                    ({a, b} \in contacts <=>
                        "Dynamic" \in {objs[a].body.type, objs[b].body.type})

\* a step has passed over an overlapping pair with categories 2 and 4 and
\* mask 1 each, one of them dynamic, and left it out of the contacts
C11_Witness ==
    /\ lastCall.op = "Step"
    /\ \E a \in worldBodies : \E b \in worldBodies \ {a} :
         /\ b2_get_fixture(objs[a]).categoryBits = CollisionGroup.SecondGroup
         /\ b2_get_fixture(objs[b]).categoryBits = CollisionGroup.ThirdGroup
         /\ b2_get_fixture(objs[a]).maskBits = CollisionGroup.Default
         /\ b2_get_fixture(objs[b]).maskBits = CollisionGroup.Default
         /\ objs[a].body.type = "Dynamic"
         /\ {a, b} \in overlaps
         /\ {a, b} \notin contacts


----------------------------------------------------------------------------
(* The order of the main loop *)

\* C12 as stated: the draw of an iteration never comes before its step
C12_DrawAfterStep ==
    "draw" \in Range(phases) => "step" \in Range(phases)

\* the fields of the shapes that the loop's mutations write
Mutable(obj) == <<obj.body.fixtures, obj.body.angularVelocity>>

\* C12 (amended): the phases of every iteration run in the order poll, mutate
\* (registry deletion included), draw, exactly one world step, flip: the draw
\* of an iteration comes before its step; and the step mutates nothing: it
\* leaves the registry, the world's bodies, the key state and every fixture
\* and angular velocity as they were
C12_LoopOrder ==
    /\ [](/\ Len(phases) <= Len(LoopOrder)
          /\ \A k \in 1 .. Len(phases) : phases[k] = LoopOrder[k]
          /\ (pc = "while" /\ iter > 0) => phases = LoopOrder
          /\ pc \in Range(LoopOrder) => phases = SubSeq(LoopOrder, 1, Len(phases))
                                         /\ LoopOrder[Len(phases) + 1] = pc)
    /\ [][(pc = "step" /\ pc' = "flip") =>
            /\ UNCHANGED <<shapes, worldBodies, destroyCalls, io, running>>
            /\ \A k \in DOMAIN objs : Mutable(objs'[k]) = Mutable(objs[k])]_vars

\* an iteration has run to its end, and its draw came before its step
C12_Witness ==
    /\ pc = "while"
    /\ iter > 0
    /\ phases = <<"poll", "mutate", "draw", "step", "flip">>
    /\ lastCall.op = "Step"

----------------------------------------------------------------------------
(* Leaving the main loop *)

\* the list holds a quit or an escape signal
HasQuit(events) ==
    \E k \in 1 .. Len(events) :
        \/ events[k].type = "QUIT"
        \/ events[k].type = "KEYDOWN" /\ events[k].key = "K_ESCAPE"

\* C13: a poll that finds a quit or escape signal ends with the loop's flag
\* cleared (or with the KeyError of an earlier event, which ends the program),
\* and once the flag is cleared no iteration begins: the counter of
\* iterations stays and the poll is not reached again
C13_NoIterationAfterQuit ==
    /\ []((lastCall.op = "poll" /\ HasQuit(lastCall.arg)) =>
            (~running \/ pc = "raised"))
    /\ [][~running => (iter' = iter /\ pc' # "poll" /\ ~running')]_vars

\* the loop was left on a signal, before the horizon of the model
C13_Witness ==
    /\ pc = "done"
    /\ ~running
    /\ iter < MaxIters

----------------------------------------------------------------------------
(* Shapes that are given a velocity in a world that is stepped *)

\* the velocity demo.py gives a kinematic shape while K_d is down
Velocities == {Px(400, 0)}

SetVelocity(self, velocity) ==
    Access("set_velocity", self, set_velocity(objs[self], velocity), velocity,
           Mark(self, get_position(objs[self]), velocity))

\* a world of one line, of any classification (demo.py line 23)
InitMotion ==
    /\ \E collision_type \in CollisionTypes :
         objs = <<set_userData(Line_init(Px(30, 20), Px(130, 100), collision_type,
                                         DefaultCollisionInfo).obj, 1).obj>>
    /\ worldBodies = {1}
    /\ shapes = {}
    /\ destroyCalls = <<0>>
    /\ released = {}
    /\ drawn = {}
    /\ contacts = {}
    /\ lastCall = Call("b2World", 0, "none", <<>>, FALSE)
    /\ aborted = FALSE
    /\ point = NoCoord /\ val = NoCoord /\ path = <<>>
    /\ InitExtra

NextMotion ==
    \/ \E velocity \in Velocities : SetVelocity(1, velocity)
    \/ WorldStep

SpecMotion == InitMotion /\ [][NextMotion]_vars

RAbs(a) == <<Abs(a[1]), a[2]>>

\* what "about" allows, in pixels
PixelTolerance == <<1, 100>>

\* a is within the tolerance of b + pixels; whole parts and fractions are
\* compared apart, which keeps the numerators within TLC's integers
Near(a, b, pixels) ==
    LET whole == (a[1] \div a[2]) - (b[1] \div b[2]) - pixels
        fraction == RSub(<<a[1] % a[2], a[2]>>, <<b[1] % b[2], b[2]>>)
    IN  /\ Abs(whole) <= 1
        /\ RLeq(RAbs(RAdd(R(whole), fraction)), PixelTolerance)

\* the world has advanced by exactly k seconds in steps of TIME_STEP since
\* shape 1, a Kinematic Line, was given the velocity (400, 0)
KinematicLineAfter(k) ==
    /\ mark.shape = 1
    /\ objs[1].geom = "Line"
    /\ objs[1].body.type = "Kinematic"
    /\ mark.velocity = Px(400, 0)
    /\ mark.steps = k * TARGET_FPS

\* C14: a Kinematic Line given set_velocity((400, 0)) reports, once the world
\* has advanced by exactly one second in fixed steps, an x within the
\* tolerance of 400 pixels more than before and the same y as before
C14_KinematicLineMoves ==
    KinematicLineAfter(1) =>
        /\ Near(get_position(objs[1])[1], mark.from[1], 400)
        /\ get_position(objs[1])[2] = mark.from[2]

\* the second has passed and the line is elsewhere
C14_Witness ==
    /\ KinematicLineAfter(1)
    /\ lastCall.op = "Step"
    /\ get_position(objs[1]) # mark.from

----------------------------------------------------------------------------
(* Every operation of a shape and of the registry, on one shape *)

Geometries == {"Circle", "Rectangle", "Line"}

\* a shape as demo.py constructs one of its geometry (lines 16-23)
ShapeOf(geometry, collision_type) ==
    CASE geometry = "Circle" ->
           Circle_init(Px(150, 250), R(30), collision_type, DefaultCollisionInfo)
      [] geometry = "Rectangle" ->
           Rectangle_init(Px(100, 350), Px(120, 50), collision_type,
                          DefaultCollisionInfo)
      [] OTHER -> Line_init(Px(30, 20), Px(130, 100), collision_type,
                            DefaultCollisionInfo)

\* pixel positions: one whose physical coordinates are float32 values, two
\* whose are not
PositionArgs == {Px(100, 350), Px(1, 1), Px(333, 77)}

SetPosition(self, position) ==
    Access("set_position", self, set_position(objs[self], position), position,
           IF mark.shape = self THEN NoMark ELSE mark)

SetAngularVelocity(self, angular_velocity) ==
    Access("set_angular_velocity", self,
           set_angular_velocity(objs[self], angular_velocity),
           <<angular_velocity>>, mark)

DrawShape(self) == Access("draw", self, draw(objs[self]), <<>>, mark)

\* a world of one shape, of any geometry and classification
InitOps ==
    /\ \E geometry \in Geometries, collision_type \in CollisionTypes :
         objs = <<set_userData(ShapeOf(geometry, collision_type).obj, 1).obj>>
    /\ worldBodies = {1}
    /\ shapes = {}
    /\ destroyCalls = <<0>>
    /\ released = {}
    /\ drawn = {}
    /\ contacts = {}
    /\ lastCall = Call("b2World", 0, "none", <<>>, FALSE)
    /\ aborted = FALSE
    /\ point = NoCoord /\ val = NoCoord /\ path = <<>>
    /\ InitExtra

\* the shape is put, and put again, where demo.py puts its first shape
HomePositions == {Px(100, 350)}

\* the groups of demo.py line 73
OpsGroupArgs == {<<CollisionGroup.SecondGroup, CollisionGroup.Default>>}

NextOps ==
    \/ \E self \in ShapeIds, position \in HomePositions : SetPosition(self, position)
    \/ \E self \in ShapeIds, velocity \in Velocities : SetVelocity(self, velocity)
    \/ \E self \in ShapeIds, angular_velocity \in AngularVelocities :
         SetAngularVelocity(self, angular_velocity)
    \/ \E self \in ShapeIds, value \in MaterialValues : SetDensity(self, value)
    \/ \E self \in ShapeIds, value \in MaterialValues : SetFriction(self, value)
    \/ \E self \in ShapeIds, value \in MaterialValues : SetRestitution(self, value)
    \/ \E self \in ShapeIds, args \in OpsGroupArgs :
         SetCollisionGroup(self, args[1], args[2])
    \/ \E self \in ShapeIds : DrawShape(self)
    \/ \E input \in AddInputs : Add(input)
    \/ \E shape \in ShapeIds : Delete(shape)
    \/ DrawShapes

SpecOps == InitOps /\ [][NextOps]_vars

----------------------------------------------------------------------------
(* Positions written and read back *)

NextPosition ==
    \/ \E self \in ShapeIds, position \in PositionArgs : SetPosition(self, position)
    \/ \E self \in ShapeIds, velocity \in Velocities : SetVelocity(self, velocity)
    \/ \E self \in ShapeIds, angular_velocity \in AngularVelocities :
         SetAngularVelocity(self, angular_velocity)

SpecPosition == InitOps /\ [][NextPosition]_vars

\* the physical coordinates of the pixel position are float32 values
Representable(position) ==
    b2Vec2(pixels_to_box2d_v(flip_y_position(position)))
        = pixels_to_box2d_v(flip_y_position(position))

\* C16 as stated: get_position() right after set_position(P) returns P
C16_RoundTripExact ==
    (lastCall.op = "set_position" /\ ~aborted) =>
        get_position(objs[lastCall.shape]) = lastCall.arg

\* C16 (amended): get_position() right after set_position(P) returns P to
\* within the rounding of the body's single-precision position, and P itself
\* when the physical coordinates of P are float32 values; the body holds P
\* flipped and then scaled; and set_position changes nothing but the body's
\* position
C16_RoundTrip ==
    /\ []((lastCall.op = "set_position" /\ ~aborted) =>
            LET self == lastCall.shape
                P == lastCall.arg
            IN  /\ Near(get_position(objs[self])[1], P[1], 0)
                /\ Near(get_position(objs[self])[2], P[2], 0)
                /\ Representable(P) => get_position(objs[self]) = P
                /\ objs[self].body.position
                     = b2Vec2(pixels_to_box2d_v(flip_y_position(P))))
    /\ [][lastCall'.op = "set_position" =>
            /\ \A k \in DOMAIN objs :
                 objs'[k] = [objs[k] EXCEPT !.body.position = objs'[k].body.position]
            /\ UNCHANGED <<worldBodies, shapes, destroyCalls, released, drawn,
                           contacts>>]_vars

\* a position that is not a float32 in physical units has been set on a shape
\* that had a velocity, and read back
C16_Witness ==
    /\ lastCall.op = "set_position"
    /\ ~Representable(lastCall.arg)
    /\ get_position(objs[lastCall.shape]) # lastCall.arg
    /\ objs[lastCall.shape].body.linearVelocity # Origin

----------------------------------------------------------------------------
(* The classification of a shape *)

\* C15: the classification a shape was constructed with is one of Static,
\* Kinematic and Dynamic, and no operation of the shape (set_position,
\* set_velocity, set_angular_velocity, the material setters,
\* set_collision_group, draw) or of the registry (add, delete, draw_shapes)
\* changes it
C15_ClassificationFixed ==
    /\ [](\A k \in DOMAIN objs : objs[k].body.type \in CollisionTypes)
    /\ [][/\ DOMAIN objs' = DOMAIN objs
          /\ \A k \in DOMAIN objs : objs'[k].body.type = objs[k].body.type]_vars

\* a Static shape that was given a position, a velocity and a collision group,
\* was added to the registry and has just been deleted from it
C15_Witness ==
    /\ lastCall.op = "delete"
    /\ 1 \in released
    /\ objs[1].body.type = "Static"
    /\ get_position(objs[1]) \in HomePositions
    /\ mark.shape = 1
    /\ b2_get_fixture(objs[1]).categoryBits = CollisionGroup.SecondGroup

========================================================================
